---- MODULE Spec2Model ----
(***************************************************************************)
(* panggil: the gRPC dynamic-invocation engine of src/main.go.             *)
(*                                                                         *)
(* Part I   JSON values, message descriptors, buildTemplateMap,            *)
(*          getZeroValue and the generateGrpcBodyTemplate pipeline         *)
(*          (specification SpecTemplate).                                  *)
(* Part II  grpcConnect, the serialized update queue and                   *)
(*          updateGrpcMethodList (specification Spec).                     *)
(***************************************************************************)
EXTENDS Integers, Sequences, FiniteSets, TLC

VARIABLES
    \* ---- template generation (generateGrpcBodyTemplate) ----
    genType,          \* reqType: the input message type of the resolved method
    genExisting,      \* existingBody: the text handed to generateGrpcBodyTemplate
    genMerged,        \* mergedMap, or Overflow when the recursion exhausted the stack
    genPc,            \* position of the generation goroutine
    genRuns,          \* how many generations have been started
    gens,             \* the generation goroutines selectGrpcMethod has started
    grpcRequestBody,  \* text of the request body text area
    \* ---- session state (App fields) ----
    grpcServerInput,      \* text of the server address input
    grpcMethodInput,      \* text of the method search input
    grpcStatusText,       \* the status line
    grpcConn,             \* connection handle, 0 = nil
    grpcStub,             \* connection the stub was built on, 0 = nil
    grpcReflectClient,    \* connection the reflection client was built on, 0 = nil
    grpcAllMethods,       \* the catalog
    grpcAvailableMethods, \* the filtered catalog
    grpcMethodList,       \* items of the result list widget
    conns,                \* every connection dialled so far: address, open flag
    tasks,                \* the connect goroutines
    updates,              \* the update queue of QueueUpdateDraw
    resolveLog,           \* history: the ResolveService outcomes of the last listing
                          \* and the connection of the client that gave them
    \* ---- request state (App fields) and the send goroutines ----
    grpcCurrentService,   \* the selected "service/method", "" = none
    grpcRequestMeta,      \* text of the metadata text area
    grpcResponseView,     \* the response view
    grpcBodyCache,        \* body text remembered per method
    history,              \* a.history, newest first
    sends,                \* the send goroutines
    \* ---- collections (App fields) ----
    collectionsRoot,      \* the CollectionNode objects, node 1 being the root
    allCollectionNodes,   \* the flat list the collection search reads
    collectionsTree,      \* current node of the tree view
    deleteModal           \* node the delete confirmation is shown for, 0 = none

tvars == <<genType, genExisting, genMerged, genPc, genRuns, gens, grpcRequestBody>>
svars == <<grpcServerInput, grpcMethodInput, grpcStatusText, grpcConn, grpcStub,
           grpcReflectClient, grpcAllMethods, grpcAvailableMethods,
           grpcMethodList, conns, tasks, updates, resolveLog>>
qvars == <<grpcCurrentService, grpcRequestMeta, grpcResponseView,
           grpcBodyCache, history, sends>>
cvars == <<collectionsRoot, allCollectionNodes, collectionsTree, deleteModal>>
vars == <<tvars, svars, qvars, cvars>>

(***************************************************************************)
(* Bounds                                                                  *)
(***************************************************************************)
\* Goroutine stack, counted in nested buildTemplateMap frames.
MaxStack == 5
\* Keys of an existing body object drawn for the template synthesis.
MaxKeys == 2
\* Object nesting below the top level of an existing body.
MaxNest == 1
\* Presses of the Generate button after the first generation.
MaxGenerate == 2

(***************************************************************************)
(* Part I.  JSON values as Go's encoding/json sees them                    *)
(***************************************************************************)
JNull == [k |-> "null"]
JStr(s) == [k |-> "str", s |-> s]
JBool(b) == [k |-> "bool", b |-> b]
\* ty is the Go dynamic type of the number ("int", "float64"), or "json" for
\* a number literal inside a text.
JNum(ty, n) == [k |-> "num", ty |-> ty, n |-> n]
JArr(a) == [k |-> "arr", a |-> a]
JObj(o) == [k |-> "obj", o |-> o]

\* make(map[string]interface{}); a nil map reads the same way.
EmptyMap == [n \in {} |-> JNull]

Put(m, key, v) == [n \in DOMAIN m \cup {key} |-> IF n = key THEN v ELSE m[n]]

\* The fatal "goroutine stack exceeds limit" outcome of an unbounded recursion.
Overflow == [k |-> "overflow"]

\* json.Unmarshal into interface{}: every number becomes a float64.
RECURSIVE Decode(_)
Decode(v) ==
    CASE v.k = "num" -> JNum("float64", v.n)
      [] v.k = "arr" -> JArr([i \in DOMAIN v.a |-> Decode(v.a[i])])
      [] v.k = "obj" -> JObj([n \in DOMAIN v.o |-> Decode(v.o[n])])
      [] OTHER -> v

\* json.MarshalIndent: an int and a float64 of the same value are written as
\* the same literal; a map is written as an object.
RECURSIVE Encode(_)
Encode(v) ==
    CASE v.k = "num" -> JNum("json", v.n)
      [] v.k = "arr" -> JArr([i \in DOMAIN v.a |-> Encode(v.a[i])])
      [] v.k = "obj" -> JObj([n \in DOMAIN v.o |-> Encode(v.o[n])])
      [] OTHER -> v

\* Texts: the empty text, a text that is not JSON, or the text of a JSON value.
EmptyText == [t |-> "empty"]
MalformedText == [t |-> "malformed"]
JsonText(v) == [t |-> "json", v |-> v]

(***************************************************************************)
(* Message descriptors (protoreflect.MessageDescriptor)                    *)
(***************************************************************************)
Field(name, json, kind, card, isMap, msg) ==
    [name |-> name, json |-> json, kind |-> kind, card |-> card,
     isMap |-> isMap, msg |-> msg]

Scalar(name, kind) == Field(name, name, kind, "optional", FALSE, "")
Message(name, msg) == Field(name, name, "message", "optional", FALSE, msg)
Repeated(name, kind, msg) == Field(name, name, kind, "repeated", FALSE, msg)
MapOf(name, entry) == Field(name, name, "message", "repeated", TRUE, entry)

\* The message types the synthesis is exercised on.
Schema ==
    [HelloRequest |-> <<Scalar("name", "string"), Scalar("repeat", "int32")>>,
     Outer |-> <<Message("inner", "Inner"), MapOf("labels", "LabelsEntry")>>,
     Batch |-> <<Repeated("items", "message", "Inner"),
                 Repeated("tags", "string", "")>>,
     Flags |-> <<Scalar("ok", "bool"),
                 Field("user_id", "userId", "int64", "optional", FALSE, "")>>,
     Misc |-> <<Scalar("status", "enum"), Scalar("data", "bytes")>>,
     Legacy |-> <<Field("legacy", "legacy", "group", "optional", FALSE, "Inner")>>,
     Inner |-> <<Scalar("x", "int32"), Scalar("y", "int32")>>,
     LabelsEntry |-> <<Scalar("key", "string"), Scalar("value", "string")>>,
     Empty |-> <<>>,
     \* google.protobuf.Value / Struct / ListValue: recursive only through a
     \* map and a list.
     Value |-> <<Message("structValue", "Struct"), Message("listValue", "ListValue")>>,
     Struct |-> <<MapOf("fields", "FieldsEntry")>>,
     FieldsEntry |-> <<Scalar("key", "string"), Message("value", "Value")>>,
     ListValue |-> <<Repeated("values", "message", "Value")>>,
     \* self-referential through singular message fields
     Node |-> <<Scalar("value", "string"), Message("next", "Node")>>,
     Ping |-> <<Message("pong", "Pong")>>,
     Pong |-> <<Message("ping", "Ping"), Scalar("n", "int32")>>]

TypeNames == DOMAIN Schema

\* Request types of the methods a user can select.
RequestTypes == {"HelloRequest", "Outer", "Batch", "Flags", "Misc", "Legacy",
                 "Empty", "Value", "Node", "Ping"}

IsList(field) == field.card = "repeated" /\ ~field.isMap
IsMap(field) == field.isMap

JSONNames(md) == {Schema[md][i].json : i \in DOMAIN Schema[md]}

(***************************************************************************)
(* buildTemplateMap and getZeroValue                                       *)
(***************************************************************************)
getZeroValueBoolAsNumber(fd) ==
    CASE fd.kind = "string" -> JStr("")
      [] OTHER -> JNum("int", 0)

getZeroValue(fd) ==
    CASE fd.kind = "string" -> JStr("")
      [] fd.kind = "bool" -> JBool(FALSE)
      [] OTHER -> JNum("int", 0)

RECURSIVE buildTemplateMap(_, _, _)

existingFieldValueCoerce(field, existingValue, depth) ==
    IF field.kind = "message" /\ ~IsList(field) /\ ~IsMap(field)
    THEN IF existingValue.k = "obj"
         THEN buildTemplateMap(field.msg, existingValue.o, depth + 1)
         ELSE buildTemplateMap(field.msg, EmptyMap, depth + 1)
    ELSE existingValue

existingFieldValueReplace(field, existingValue, depth) == existingValue

existingFieldValueMapAsMessage(field, existingValue, depth) ==
    IF field.kind = "message" /\ ~IsList(field)
    THEN IF existingValue.k = "obj"
         THEN buildTemplateMap(field.msg, existingValue.o, depth + 1)
         ELSE existingValue
    ELSE existingValue

\* main.go 489-497: the field has a value in existingData.
existingFieldValue(field, existingValue, depth) ==
    IF field.kind = "message" /\ ~IsList(field) /\ ~IsMap(field)
    THEN IF existingValue.k = "obj"
         THEN buildTemplateMap(field.msg, existingValue.o, depth + 1)
         ELSE existingValue
    ELSE existingValue

\* main.go 499-507: the field has no value in existingData.
defaultFieldValue(field, depth) ==
    IF IsList(field) THEN JArr(<<>>)
    ELSE IF IsMap(field) THEN JObj(EmptyMap)
    ELSE IF field.kind = "message"
         THEN buildTemplateMap(field.msg, EmptyMap, depth + 1)
         ELSE getZeroValue(field)

\* The loop of main.go 484-509 from field i on; template holds the entries
\* written so far.  A nested call that exhausts the stack ends the process.
RECURSIVE buildTemplateFields(_, _, _, _, _)
buildTemplateFields(md, existingData, i, template, depth) ==
    IF i > Len(Schema[md]) THEN JObj(template)
    ELSE LET field == Schema[md][i]
             fieldName == field.json
             v == IF fieldName \in DOMAIN existingData
                  THEN existingFieldValue(field, existingData[fieldName], depth)
                  ELSE defaultFieldValue(field, depth)
         IN  IF v = Overflow THEN Overflow
             ELSE buildTemplateFields(md, existingData, i + 1,
                                      Put(template, fieldName, v), depth)

buildTemplateMapKeepAll(md, existingData, depth) ==
    IF depth > MaxStack THEN Overflow
    ELSE buildTemplateFields(md, existingData, 1, existingData, depth)

\* main.go 481-511.  depth counts the frames below this one.
buildTemplateMap(md, existingData, depth) ==
    IF depth > MaxStack THEN Overflow
    ELSE buildTemplateFields(md, existingData, 1, EmptyMap, depth)

(***************************************************************************)
(* generateGrpcBodyTemplate, from the resolved request type on             *)
(***************************************************************************)
\* Does json.Unmarshal(existingBody, &existingData) return an error?  Only an
\* object or null can be stored in a map[string]interface{}.
unmarshalFails(existingBody) ==
    \/ existingBody.t # "json"
    \/ existingBody.v.k \notin {"obj", "null"}

unmarshalExistingAbort(existingBody) ==
    IF unmarshalFails(existingBody) THEN [abort |-> TRUE, data |-> EmptyMap]
    ELSE IF existingBody.v.k = "obj"
         THEN [abort |-> FALSE, data |-> Decode(existingBody.v).o]
         ELSE [abort |-> FALSE, data |-> EmptyMap]

\* main.go 457-460: existingData after the unmarshal and its error branch;
\* abort tells whether the goroutine gave up.
unmarshalExisting(existingBody) ==
    IF unmarshalFails(existingBody) THEN [abort |-> FALSE, data |-> EmptyMap]
    ELSE IF existingBody.v.k = "obj"
         THEN [abort |-> FALSE, data |-> Decode(existingBody.v).o]
         ELSE [abort |-> FALSE, data |-> EmptyMap]

InitialStatus == [kind |-> "notConnected", addr |-> "", count |-> 0]

\* The response view showing nothing, and a.grpcBodyCache as NewApp makes it
\* when no cache file exists (main.go 135).
EmptyView == [kind |-> "empty"]
EmptyCache == [m \in {} |-> EmptyText]

SessionInit ==
    /\ grpcServerInput = ""
    /\ grpcMethodInput = ""
    /\ grpcStatusText = InitialStatus
    /\ grpcConn = 0
    /\ grpcStub = 0
    /\ grpcReflectClient = 0
    /\ grpcAllMethods = <<>>
    /\ grpcAvailableMethods = <<>>
    /\ grpcMethodList = <<>>
    /\ conns = <<>>
    /\ tasks = <<>>
    /\ updates = <<>>
    /\ resolveLog = [resolved |-> <<>>, failed |-> 0, client |-> 0]
    /\ grpcCurrentService = ""
    /\ grpcRequestMeta = EmptyText
    /\ grpcResponseView = EmptyView
    /\ grpcBodyCache = EmptyCache
    /\ history = <<>>
    /\ sends = <<>>

\* Values and objects a user can have typed into the body.
Leaves == {JStr("Bob"), JNum("json", 5), JArr(<<JNum("json", 1)>>)}
NestedKeys == {"x", "next"}

RECURSIVE Vals(_)
Vals(d) ==
    IF d = 0 THEN Leaves
    ELSE Leaves \cup {JObj(EmptyMap)}
           \cup {JObj([n \in {key} |-> v]) : key \in NestedKeys, v \in Vals(d - 1)}

KeySets(md) ==
    {S \in SUBSET (JSONNames(md) \cup {"extra"}) : Cardinality(S) <= MaxKeys}

ExistingObjects(md) ==
    UNION {{JObj(o) : o \in [S -> Vals(MaxNest)]} : S \in KeySets(md)}

ExistingTexts(md) ==
    {EmptyText, MalformedText}
      \cup {JsonText(v) : v \in ExistingObjects(md)}
      \cup {JsonText(v) : v \in Leaves \cup {JNull}}

\* A CollectionNode of models.go; Children holds the nodes it points to and
\* Expanded is left out.  A folder has no request.
NoRequest == [Type |-> "none"]
CollectionNode(name, isFolder, request, children) ==
    [Name |-> name, IsFolder |-> isFolder, Request |-> request,
     Children |-> children]

\* The root NewApp makes (main.go 130-134), and the collections of an
\* application without a collections file after Init has populated the tree.
RootNode == CollectionNode("Collections", TRUE, NoRequest, <<>>)
CollectionsIdle ==
    /\ collectionsRoot = <<RootNode>>
    /\ allCollectionNodes = <<>>
    /\ collectionsTree = 1
    /\ deleteModal = 0

\* The generation goroutine has resolved the method's request type (main.go
\* 437-455) and holds the body text it was started with.
TemplateInit ==
    /\ genType \in RequestTypes
    /\ genExisting \in ExistingTexts(genType)
    /\ genMerged = JNull
    /\ genPc = "start"
    /\ genRuns = 0
    /\ gens = <<>>
    /\ grpcRequestBody = genExisting
    /\ SessionInit
    /\ CollectionsIdle

\* main.go 457-462, in the goroutine.
GenMerge ==
    /\ genPc = "start"
    /\ LET u == unmarshalExisting(genExisting)
           mergedMap == buildTemplateMap(genType, u.data, 0)
       IN  IF u.abort
           THEN genPc' = "aborted" /\ genMerged' = genMerged
           ELSE /\ genMerged' = mergedMap
                /\ genPc' = IF mergedMap = Overflow THEN "crashed" ELSE "merged"
    /\ UNCHANGED <<genType, genExisting, genRuns, gens, grpcRequestBody, svars, qvars>>
    /\ UNCHANGED cvars

\* main.go 463-469: json.MarshalIndent cannot fail on these values; the
\* closure is handed to QueueUpdateDraw.
GenQueue ==
    /\ genPc = "merged"
    /\ genPc' = "queued"
    /\ UNCHANGED <<genType, genExisting, genMerged, genRuns, gens, grpcRequestBody,
                   svars, qvars>>
    /\ UNCHANGED cvars

\* main.go 470-473, on the UI thread.
GenApply ==
    /\ genPc = "queued"
    /\ LET jsonTemplate == JsonText(Encode(genMerged))
       IN  grpcRequestBody' = IF jsonTemplate = JsonText(JNull)
                              THEN JsonText(JObj(EmptyMap))
                              ELSE jsonTemplate
    /\ genPc' = "done"
    /\ UNCHANGED <<genType, genExisting, genMerged, genRuns, gens, svars, qvars>>
    /\ UNCHANGED cvars

\* The Generate button (part_001 grpcGenerateBtn): a new generation from
\* the text now in the body.
GenerateButton ==
    /\ genPc = "done"
    /\ genRuns < MaxGenerate
    /\ genRuns' = genRuns + 1
    /\ genExisting' = grpcRequestBody
    /\ genPc' = "start"
    /\ UNCHANGED <<genType, genMerged, gens, grpcRequestBody, svars, qvars>>
    /\ UNCHANGED cvars

TemplateNext == GenMerge \/ GenQueue \/ GenApply \/ GenerateButton

SpecTemplate == TemplateInit /\ [][TemplateNext]_vars

(***************************************************************************)
(* Properties of the template synthesis (checked under SpecTemplate)       *)
(***************************************************************************)
\* buildTemplateMap has returned a map in this generation.
Built == genPc \in {"merged", "queued", "done"}

\* existingData of the running generation.
ExistingData == unmarshalExisting(genExisting).data

\* The code's test for a singular message field (main.go 489).
IsSingularMessage(field) ==
    field.kind = "message" /\ ~IsList(field) /\ ~IsMap(field)

FieldsOf(md) == {Schema[md][i] : i \in DOMAIN Schema[md]}

\* template has exactly the declared JSON names as keys, and so has every
\* nested object the synthesis built (from a default or from an object of
\* existingData).
RECURSIVE ExactFields(_, _, _)
ExactFields(md, existingData, template) ==
    /\ template.k = "obj"
    /\ DOMAIN template.o = JSONNames(md)
    /\ \A f \in FieldsOf(md) :
         IsSingularMessage(f) =>
           IF f.json \notin DOMAIN existingData
           THEN ExactFields(f.msg, EmptyMap, template.o[f.json])
           ELSE existingData[f.json].k = "obj" =>
                  ExactFields(f.msg, existingData[f.json].o, template.o[f.json])

\* C1: the object buildTemplateMap(D, E) returns has exactly the JSON names
\* of the fields declared in D as its keys (every declared field, no key of
\* E that D does not declare), and so has every nested object it synthesizes.
C1_ExactFields == Built => ExactFields(genType, ExistingData, genMerged)

\* An existing body with an undeclared top-level key and an undeclared key
\* inside a nested message has been synthesized.
C1_Witness ==
    /\ Built
    /\ genType = "Outer"
    /\ {"extra", "inner"} \subseteq DOMAIN ExistingData
    /\ ExistingData["inner"].k = "obj"
    /\ "next" \in DOMAIN ExistingData["inner"].o
    /\ DOMAIN genMerged.o["inner"].o = {"x", "y"}

\* C2: a field that has a value in E, and is not a singular message field or
\* has a value that is not an object, keeps E's value unchanged.
C2_KeptVerbatim ==
    Built =>
      \A f \in FieldsOf(genType) :
        (/\ f.json \in DOMAIN ExistingData
         /\ (~IsSingularMessage(f) \/ ExistingData[f.json].k # "obj"))
        => genMerged.o[f.json] = ExistingData[f.json]

\* A singular message field holding a string, next to a map field holding
\* an object, both kept as they are.
C2_Witness ==
    /\ Built
    /\ genType = "Outer"
    /\ {"inner", "labels"} \subseteq DOMAIN ExistingData
    /\ ExistingData["inner"] = JStr("Bob")
    /\ ExistingData["labels"] = JObj([n \in {"x"} |-> JNum("float64", 5)])
    /\ genMerged.o["inner"] = JStr("Bob")
    /\ genMerged.o["labels"] = ExistingData["labels"]

\* C3: a singular message field whose existing value is an object is set to
\* the synthesis of its message type over that object (Scenario E: existing
\* inner values are kept, missing inner fields are filled).
C3_RecursiveMerge ==
    Built =>
      /\ \A f \in FieldsOf(genType) :
           (/\ IsSingularMessage(f)
            /\ f.json \in DOMAIN ExistingData
            /\ ExistingData[f.json].k = "obj")
           => genMerged.o[f.json]
                = buildTemplateMap(f.msg, ExistingData[f.json].o, 0)
      /\ (/\ genType = "Outer"
          /\ "inner" \in DOMAIN ExistingData
          /\ ExistingData["inner"] = JObj([n \in {"x"} |-> JNum("float64", 5)]))
         => genMerged.o["inner"]
              = JObj([n \in {"x", "y"} |->
                        IF n = "x" THEN JNum("float64", 5) ELSE JNum("int", 0)])

\* Scenario E has been synthesized.
C3_Witness ==
    /\ Built
    /\ genType = "Outer"
    /\ DOMAIN ExistingData = {"inner"}
    /\ ExistingData["inner"] = JObj([n \in {"x"} |-> JNum("float64", 5)])
    /\ genMerged.o["inner"].o["y"] = JNum("int", 0)

\* C4: synthesizing over the default template of a type gives that template
\* again.
C4_Idempotent ==
    (Built /\ ExistingData = EmptyMap)
      => buildTemplateMap(genType, genMerged.o, 0) = genMerged

\* A default template with a nested message, a list and a map in it.
C4_Witness ==
    /\ Built
    /\ ExistingData = EmptyMap
    /\ genType = "Outer"
    /\ genMerged.o["labels"] = JObj(EmptyMap)
    /\ genMerged.o["inner"].k = "obj"

\* C5: a field without a value in E is set to an empty sequence (repeated),
\* an empty mapping (map), the synthesis of its type over {} (singular
\* message), "" (string), false (bool), and 0 for every other kind.
C5_Defaults ==
    Built =>
      \A f \in FieldsOf(genType) :
        f.json \notin DOMAIN ExistingData =>
          genMerged.o[f.json] =
            (IF IsList(f) THEN JArr(<<>>)
             ELSE IF IsMap(f) THEN JObj(EmptyMap)
             ELSE IF IsSingularMessage(f)
                  THEN buildTemplateMap(f.msg, EmptyMap, 0)
             ELSE IF f.kind = "string" THEN JStr("")
             ELSE IF f.kind = "bool" THEN JBool(FALSE)
             ELSE JNum("int", 0))

\* Scenario A: {"name":"Bob"} over {name:string, repeat:int32}.
C5_Witness ==
    /\ Built
    /\ genType = "HelloRequest"
    /\ ExistingData = [n \in {"name"} |-> JStr("Bob")]
    /\ genMerged = JObj([n \in {"name", "repeat"} |->
                           IF n = "name" THEN JStr("Bob") ELSE JNum("int", 0)])

\* Does the text hold a JSON object?
ParsesAsObject(text) == text.t = "json" /\ text.v.k = "obj"

\* C6: a body text that is not a JSON object never makes the generation give
\* up or report an error: its result is the result for the body {}.
C6_UnparsableIsEmpty ==
    (~ParsesAsObject(genExisting) /\ genPc # "start") =>
      /\ genPc # "aborted"
      /\ genMerged = buildTemplateMap(genType, EmptyMap, 0)
      /\ grpcStatusText = InitialStatus
      /\ genPc = "done" =>
           grpcRequestBody
             = JsonText(Encode(buildTemplateMap(genType, EmptyMap, 0)))

\* Scenario B: the empty text over {name:string, repeat:int32}.
C6_Witness ==
    /\ genPc = "done"
    /\ genRuns = 0
    /\ genType = "HelloRequest"
    /\ genExisting = EmptyText
    /\ grpcRequestBody
         = JsonText(JObj([n \in {"name", "repeat"} |->
                            IF n = "name" THEN JStr("") ELSE JNum("json", 0)]))

\* C7: the synthesis returns for every schema, self-referential ones
\* included: no generation ends by exhausting the stack.
C7_Terminates == genPc # "crashed"

\* Only a type that reaches itself through singular message fields exhausts
\* the stack within the bounds on the existing body.
OverflowOnlyOnCycles == genPc = "crashed" => genType \in {"Node", "Ping"}

(***************************************************************************)
(* Part II.  grpcConnect, the update queue and the method search           *)
(***************************************************************************)
\* Connect presses in one run.
MaxConnects == 1
\* Length of the service list a server reports.
MaxServices == 2

\* main.go 580: the one service name the listing skips.
SkippedService == "grpc.reflection.v1alpha.ServerReflection"
\* The reflection service of protocol v1, which grpcreflect.NewClientAuto
\* (main.go 567) prefers and a server offering it lists as well.
ReflectionV1 == "grpc.reflection.v1.ServerReflection"
ReflectionServices == {SkippedService, ReflectionV1}

\* Names a server can report from ListServices, and the methods
\* ResolveService finds in each, in declaration order.
SvcNames == {SkippedService, ReflectionV1, "G", "H"}
Methods(srv) ==
    CASE srv = "G" -> <<"s", "t">>
      [] srv = "H" -> <<"s">>
      [] OTHER -> <<"ServerReflectionInfo">>

Addrs == {"a1", "a2"}
Queries == {"", "s", "zz"}

\* Duplicate-free sequences over S of length at most n.
RECURSIVE SeqsUpTo(_, _)
SeqsUpTo(S, n) ==
    IF n = 0 THEN {<<>>}
    ELSE LET shorter == SeqsUpTo(S, n - 1)
         IN  shorter \cup {Append(q, x) : q \in {r \in shorter : Len(r) = n - 1},
                                          x \in S}

Range(q) == {q[i] : i \in DOMAIN q}
NoDuplicates(q) == \A i, j \in DOMAIN q : q[i] = q[j] => i = j

\* What ListServices can return: a server reports each registered service
\* once.
ServiceLists == {q \in SeqsUpTo(SvcNames, MaxServices) : NoDuplicates(q)}

\* fmt.Sprintf("%s/%s", srv, md.GetName())
FullMethodName(srv, method) == srv \o "/" \o method

\* A service no server of the model offers.
UnknownService == "X"
SplitServices == SvcNames \cup {UnknownService}
SplitMethods == {"s", "t", "zz", "ServerReflectionInfo"}

\* strings.SplitN(str, "/", 2) (main.go 622).
SplitN(str) ==
    IF \E p \in SplitServices \X SplitMethods : FullMethodName(p[1], p[2]) = str
    THEN LET p == CHOOSE q \in SplitServices \X SplitMethods :
                    FullMethodName(q[1], q[2]) = str
         IN  <<p[1], p[2]>>
    ELSE <<str>>

(***************************************************************************)
(* fuzzy.Find (github.com/sahilm/fuzzy), by its contract: the entries that *)
(* hold the characters of the pattern in order, ignoring case, each once,  *)
(* ranked by a score the library computes; no entry for an empty pattern.  *)
(***************************************************************************)
FoldedChars(name) ==
    CASE name = "G" -> <<"g">>
      [] name = "H" -> <<"h">>
      [] name = "s" -> <<"s">>
      [] name = "t" -> <<"t">>
      [] name = "zz" -> <<"z", "z">>
      [] name = "" -> <<>>
      [] name = UnknownService -> <<"x">>
      [] name = "ServerReflectionInfo" ->
           <<"s", "e", "r", "v", "e", "r", "r", "e", "f", "l", "e", "c",
           "t", "i", "o", "n", "i", "n", "f", "o">>
      [] name = ReflectionV1 ->
           <<"g", "r", "p", "c", ".", "r", "e", "f", "l", "e", "c", "t",
           "i", "o", "n", ".", "v", "1", ".", "s", "e", "r", "v", "e",
           "r", "r", "e", "f", "l", "e", "c", "t", "i", "o", "n">>
      [] name = SkippedService ->
           <<"g", "r", "p", "c", ".", "r", "e", "f", "l", "e", "c", "t",
           "i", "o", "n", ".", "v", "1", "a", "l", "p", "h", "a", ".",
           "s", "e", "r", "v", "e", "r", "r", "e", "f", "l", "e", "c",
           "t", "i", "o", "n">>

EntryChars(entry) ==
    LET pair == CHOOSE p \in SvcNames \X {"s", "t", "ServerReflectionInfo"} :
                  FullMethodName(p[1], p[2]) = entry
    IN  FoldedChars(pair[1]) \o <<"/">> \o FoldedChars(pair[2])

\* The folded characters of a query, which is a name or a "service/method".
QueryChars(query) ==
    LET parts == SplitN(query)
    IN  IF Len(parts) = 2
        THEN FoldedChars(parts[1]) \o <<"/">> \o FoldedChars(parts[2])
        ELSE FoldedChars(query)

\* Is pattern[i..] a subsequence of str[j..]?
RECURSIVE IsSubsequence(_, _, _, _)
IsSubsequence(pattern, i, str, j) ==
    IF i > Len(pattern) THEN TRUE
    ELSE IF j > Len(str) THEN FALSE
    ELSE IF pattern[i] = str[j] THEN IsSubsequence(pattern, i + 1, str, j + 1)
    ELSE IsSubsequence(pattern, i, str, j + 1)

Permutations1(n) == {f \in [1..n -> 1..n] : \A i, j \in 1..n : f[i] = f[j] => i = j}

\* The rankings fuzzy.Find may return for the query over data.
fuzzyFind(query, data) ==
    IF query = "" THEN {<<>>}
    ELSE LET hits == {i \in DOMAIN data :
                        IsSubsequence(QueryChars(query), 1, EntryChars(data[i]), 1)}
             inOrder == SelectSeq([i \in DOMAIN data |-> i], LAMBDA i : i \in hits)
         IN  {[r \in 1..Len(inOrder) |-> data[inOrder[f[r]]]] :
                f \in Permutations1(Len(inOrder))}

NoResults == "[gray]No results found"

updateGrpcMethodListNoEmptyCase(query, allMethods) ==
    \E matchedMethods \in fuzzyFind(query, allMethods) :
       /\ grpcAvailableMethods' = matchedMethods
       /\ grpcMethodList' = IF Len(matchedMethods) > 0 THEN matchedMethods
                            ELSE <<NoResults>>

\* main.go 393-426; allMethods is a.grpcAllMethods at the time of the call.
\* The height of the list widget is layout and is left out.
updateGrpcMethodList(query, allMethods) ==
    IF query = ""
    THEN /\ grpcAvailableMethods' = allMethods
         /\ grpcMethodList' = <<>>
    ELSE \E matchedMethods \in fuzzyFind(query, allMethods) :
            /\ grpcAvailableMethods' = matchedMethods
            /\ grpcMethodList' = IF Len(matchedMethods) > 0 THEN matchedMethods
                                 ELSE <<NoResults>>

\* The user edits the method input; its changed handler (part_001
\* SetChangedFunc) runs the search.
TypeQuery(query) ==
    /\ query # grpcMethodInput
    /\ grpcMethodInput' = query
    /\ updateGrpcMethodList(query, grpcAllMethods)
    /\ UNCHANGED <<grpcServerInput, grpcStatusText, grpcConn, grpcStub,
                   grpcReflectClient, grpcAllMethods, conns, tasks, updates,
                   resolveLog, tvars, qvars>>
    /\ UNCHANGED cvars

(***************************************************************************)
(* grpcConnect                                                             *)
(***************************************************************************)
Status(kind, addr, count) == [kind |-> kind, addr |-> addr, count |-> count]

\* The onSuccess argument of grpcConnect: nil (part_001 line 90), or the
\* closure of loadGrpcRequest (main.go 1371-1374) holding req.GrpcMethod.
NoCallback == [nil |-> TRUE]
Callback(method) == [nil |-> FALSE, method |-> method]

\* A connect goroutine: its position, its locals serverAddr and conn, the
\* onSuccess it was started with, and the connection that was live when it
\* was issued (history, 0 = none).
Task(pc, serverAddr, conn, onSuccess) ==
    [pc |-> pc, serverAddr |-> serverAddr, conn |-> conn, onSuccess |-> onSuccess,
     prior |-> 0]

\* The session is connected: the handle names an open connection, and the
\* stub, the reflection client and the catalog are of that connection.
Connected ==
    /\ grpcConn # 0
    /\ conns[grpcConn].open
    /\ grpcStub = grpcConn
    /\ grpcReflectClient = grpcConn
    /\ resolveLog.client = grpcConn

\* A goroutine that has ended.
Ended == Task("done", "", 0, NoCallback)

SetPc(t, pc) == [tasks EXCEPT ![t].pc = pc]

\* No connect is running.
NoConnectRunning == \A t \in DOMAIN tasks : tasks[t] = Ended

\* main.go 529-538, on the UI thread, with serverAddr in the server input.
grpcConnect(serverAddr, onSuccess) ==
    IF serverAddr = ""
    THEN /\ grpcStatusText' = Status("addressRequired", "", 0)
         /\ UNCHANGED tasks
    ELSE /\ grpcStatusText' = Status("connecting", serverAddr, 0)
         /\ tasks' = Append(tasks, [Task("close", serverAddr, 0, onSuccess)
                                      EXCEPT !.prior = IF Connected THEN grpcConn
                                                       ELSE 0])

\* part_001 line 90: the Connect button, pressed with addr typed into the
\* server input.
ConnectButton(addr) ==
    /\ grpcServerInput' = addr
    /\ grpcConnect(addr, NoCallback)
    /\ UNCHANGED <<grpcMethodInput, grpcConn, grpcStub, grpcReflectClient,
                   grpcAllMethods, grpcAvailableMethods, grpcMethodList,
                   conns, updates, resolveLog, tvars, qvars>>
    /\ UNCHANGED cvars

\* main.go 539-541, in the goroutine: close the connection the handle names.
ConnectClosePrior(t) ==
    /\ tasks[t].pc = "close"
    /\ conns' = IF grpcConn # 0 THEN [conns EXCEPT ![grpcConn].open = FALSE]
                ELSE conns
    /\ tasks' = SetPc(t, "dial")
    /\ UNCHANGED <<grpcServerInput, grpcMethodInput, grpcStatusText, grpcConn,
                   grpcStub, grpcReflectClient, grpcAllMethods,
                   grpcAvailableMethods, grpcMethodList, updates,
                   resolveLog, tvars, qvars>>
    /\ UNCHANGED cvars

\* main.go 543-560: the blocking dial either yields a new open connection or
\* fails (refused, or the 10 s deadline); a failure queues its report and the
\* goroutine waits in QueueUpdateDraw until the report has run.
ConnectDial(t) ==
    /\ tasks[t].pc = "dial"
    /\ \/ /\ conns' = Append(conns, [addr |-> tasks[t].serverAddr, open |-> TRUE])
          /\ tasks' = [tasks EXCEPT ![t].pc = "setConn", ![t].conn = Len(conns) + 1]
          /\ UNCHANGED updates
       \/ /\ updates' = Append(updates, [kind |-> "dialFailed", task |-> t])
          /\ tasks' = SetPc(t, "wait")
          /\ UNCHANGED conns
    /\ UNCHANGED <<grpcServerInput, grpcMethodInput, grpcStatusText, grpcConn,
                   grpcStub, grpcReflectClient, grpcAllMethods,
                   grpcAvailableMethods, grpcMethodList, resolveLog, tvars, qvars>>
    /\ UNCHANGED cvars

\* main.go 562, in the goroutine.
ConnectSetConn(t) ==
    /\ tasks[t].pc = "setConn"
    /\ grpcConn' = tasks[t].conn
    /\ tasks' = SetPc(t, "setStub")
    /\ UNCHANGED <<grpcServerInput, grpcMethodInput, grpcStatusText, grpcStub,
                   grpcReflectClient, grpcAllMethods, grpcAvailableMethods,
                   grpcMethodList, conns, updates, resolveLog, tvars, qvars>>
    /\ UNCHANGED cvars

\* main.go 563, in the goroutine.
ConnectSetStub(t) ==
    /\ tasks[t].pc = "setStub"
    /\ grpcStub' = tasks[t].conn
    /\ tasks' = SetPc(t, "setReflect")
    /\ UNCHANGED <<grpcServerInput, grpcMethodInput, grpcStatusText, grpcConn,
                   grpcReflectClient, grpcAllMethods, grpcAvailableMethods,
                   grpcMethodList, conns, updates, resolveLog, tvars, qvars>>
    /\ UNCHANGED cvars

\* main.go 567, in the goroutine: the client is built on a.grpcConn, the
\* handle as it is now.
ConnectSetReflect(t) ==
    /\ tasks[t].pc = "setReflect"
    /\ grpcReflectClient' = grpcConn
    /\ tasks' = SetPc(t, "list")
    /\ UNCHANGED <<grpcServerInput, grpcMethodInput, grpcStatusText, grpcConn,
                   grpcStub, grpcAllMethods, grpcAvailableMethods,
                   grpcMethodList, conns, updates, resolveLog, tvars, qvars>>
    /\ UNCHANGED cvars

ConnectListServicesFallThrough(t) ==
    /\ tasks[t].pc = "list"
    /\ \/ updates' = Append(Append(updates, [kind |-> "listFailed", task |-> t]),
                            [kind |-> "listed", task |-> t])
       \/ /\ conns[grpcReflectClient].open
          /\ updates' = Append(updates, [kind |-> "listed", task |-> t])
    /\ tasks' = SetPc(t, "wait")
    /\ UNCHANGED <<grpcServerInput, grpcMethodInput, grpcStatusText, grpcConn,
                   grpcStub, grpcReflectClient, grpcAllMethods,
                   grpcAvailableMethods, grpcMethodList, conns,
                   resolveLog, tvars, qvars>>
    /\ UNCHANGED cvars

\* main.go 568-577: ListServices on a.grpcReflectClient fails, always so on
\* a closed connection, or returns the server's list; either way a closure
\* is queued and the goroutine waits until it has run.  Nothing reads the
\* returned list before the queued closure does, so the list is drawn where
\* the closure runs (InstallCatalog).
ConnectListServices(t) ==
    /\ tasks[t].pc = "list"
    /\ \/ updates' = Append(updates, [kind |-> "listFailed", task |-> t])
       \/ /\ conns[grpcReflectClient].open
          /\ updates' = Append(updates, [kind |-> "listed", task |-> t])
    /\ tasks' = SetPc(t, "wait")
    /\ UNCHANGED <<grpcServerInput, grpcMethodInput, grpcStatusText, grpcConn,
                   grpcStub, grpcReflectClient, grpcAllMethods,
                   grpcAvailableMethods, grpcMethodList, conns,
                   resolveLog, tvars, qvars>>
    /\ UNCHANGED cvars

\* The entries of one resolved service (main.go 588-590).
RECURSIVE methodEntries(_, _, _)
methodEntries(srv, methods, i) ==
    IF i > Len(methods) THEN <<>>
    ELSE <<FullMethodName(srv, methods[i])>> \o methodEntries(srv, methods, i + 1)

RECURSIVE serviceMethodsStopAtFailure(_, _, _)
serviceMethodsStopAtFailure(services, resolved, i) ==
    IF i > Len(services) THEN <<>>
    ELSE IF services[i] = SkippedService
         THEN serviceMethodsStopAtFailure(services, resolved, i + 1)
    ELSE IF ~resolved[i] THEN <<>>
    ELSE methodEntries(services[i], Methods(services[i]), 1)
           \o serviceMethodsStopAtFailure(services, resolved, i + 1)

\* The loop of main.go 578-591 from service i on; resolved[j] tells whether
\* ResolveService succeeded for services[j].
RECURSIVE serviceMethodsFrom(_, _, _)
serviceMethodsFrom(services, resolved, i) ==
    IF i > Len(services) THEN <<>>
    ELSE IF services[i] = SkippedService \/ ~resolved[i]
         THEN serviceMethodsFrom(services, resolved, i + 1)
    ELSE methodEntries(services[i], Methods(services[i]), 1)
           \o serviceMethodsFrom(services, resolved, i + 1)

\* main.go 597: the number shown as "Found %d services".
foundServices(services) == Len(services) - 1

\* main.go 555-558, on the UI thread.
ReportDialFailed(t) ==
    /\ grpcStatusText' = Status("dialFailed", tasks[t].serverAddr, 0)
    /\ UNCHANGED <<grpcServerInput, grpcMethodInput, grpcConn, grpcStub,
                   grpcReflectClient, grpcAllMethods, grpcAvailableMethods,
                   grpcMethodList, conns, resolveLog, grpcCurrentService>>

\* main.go 570-573, on the UI thread.
ReportListFailed(t) ==
    /\ grpcStatusText' = Status("listFailed", tasks[t].serverAddr, 0)
    /\ UNCHANGED <<grpcServerInput, grpcMethodInput, grpcConn, grpcStub,
                   grpcReflectClient, grpcAllMethods, grpcAvailableMethods,
                   grpcMethodList, conns, resolveLog, grpcCurrentService>>

\* The outcomes ResolveService can have for the listed services: each call
\* succeeds or fails; the skipped service is never resolved.
ResolveOutcomes(services) ==
    {resolved \in [DOMAIN services -> BOOLEAN] :
       \A i \in DOMAIN services : resolved[i] => services[i] # SkippedService}

\* main.go 577-602, on the UI thread, for the list services and the
\* resolution outcomes resolved.  SetText on the method input runs its
\* changed handler; onSuccess (main.go 1371-1374) sets the selection and the
\* method input again.
InstallCatalog(t, services, resolved) ==
    /\ grpcStatusText' = Status("connected", tasks[t].serverAddr,
                                foundServices(services))
    /\ resolveLog' =
         LET kept == SelectSeq([i \in DOMAIN services |-> i], LAMBDA i : resolved[i])
         IN  [resolved |-> [k \in DOMAIN kept |-> services[kept[k]]],
              failed   |-> Cardinality({i \in DOMAIN services :
                                          /\ services[i] # SkippedService
                                          /\ ~resolved[i]}),
              client   |-> grpcReflectClient]
    /\ LET serviceMethods == serviceMethodsFrom(services, resolved, 1)
           onSuccess == tasks[t].onSuccess
       IN  /\ grpcAllMethods' = serviceMethods
           /\ IF onSuccess.nil
              THEN /\ grpcMethodInput' = ""
                   /\ updateGrpcMethodList("", serviceMethods)
                   /\ UNCHANGED grpcCurrentService
              ELSE /\ grpcCurrentService' = onSuccess.method
                   /\ grpcMethodInput' = onSuccess.method
                   /\ updateGrpcMethodList(onSuccess.method, serviceMethods)
    /\ UNCHANGED <<grpcServerInput, grpcConn, grpcStub, grpcReflectClient, conns>>

(***************************************************************************)
(* sendGrpcRequest, loadGrpcRequest and the edits of the request texts     *)
(***************************************************************************)
\* Sends in one run.
MaxSends == 1

\* md.GetInputType() of the methods of the model (main.go 649).
InputType(srv, method) ==
    CASE srv = "G" /\ method = "s" -> "HelloRequest"
      [] srv = "G" /\ method = "t" -> "Flags"
      [] OTHER -> "Empty"

\* Does dynMsg.UnmarshalJSON(bodyText) return an error (main.go 653)?  The
\* text must be a JSON object whose keys are fields of the message; the
\* objects drawn below carry no values that could mismatch a field type.
bodyUnmarshalFails(md, bodyText) ==
    \/ bodyText.t # "json"
    \/ bodyText.v.k # "obj"
    \/ \E key \in DOMAIN bodyText.v.o :
         key \notin JSONNames(md) \cup {Schema[md][i].name : i \in DOMAIN Schema[md]}

\* Does json.Unmarshal(metaText, &metaMap) return an error (main.go 668)?
\* metaMap is a map[string]string: an object of strings, or null.
metaUnmarshalFails(metaText) ==
    \/ metaText.t # "json"
    \/ metaText.v.k \notin {"obj", "null"}
    \/ /\ metaText.v.k = "obj"
       /\ \E key \in DOMAIN metaText.v.o : metaText.v.o[key].k \notin {"str", "null"}

\* What a user types into the body and into the metadata.
BodyTexts == {EmptyText, MalformedText, JsonText(JObj(EmptyMap))}
MetaTexts == {EmptyText, MalformedText, JsonText(JObj([k |-> JStr("v")]))}

\* time.Since(start) of a remote call (main.go 681).
Durations == {7}

\* Status lines of a send and of a load.
SendStatus(kind, arg) == [kind |-> kind, arg |-> arg]
SuccessStatus(duration) == [kind |-> "success", duration |-> duration]

\* The Request of models.go for a gRPC request; Time is left out.
Request(name, server, method, meta, body) ==
    [Type |-> "grpc", Name |-> name, GrpcServer |-> server,
     GrpcMethod |-> method, GrpcMetadata |-> meta, Body |-> body]

\* A send goroutine: its position, the connection that was live when it was
\* started (history, 0 = not Connected, or a connect was running), its
\* locals, the connection of the stub that InvokeRpc was called on (0 = not
\* called), and the way it ended: the
\* check it returned at, or the result of the remote call.
NotRead == [t |-> "notRead"]
NewSend(conn) ==
    [pc |-> "split", startedOn |-> conn, serviceName |-> "", methodName |-> "",
     bodyText |-> NotRead, metaText |-> NotRead, invokedOn |-> 0,
     outcome |-> "none", duration |-> 0]

\* main.go 608-619 and 711-721, on the UI thread.
sendGrpcRequest ==
    IF grpcConn = 0
    THEN /\ grpcStatusText' = SendStatus("notConnected", "")
         /\ UNCHANGED <<grpcResponseView, sends, history>>
    ELSE IF grpcCurrentService = ""
    THEN /\ grpcStatusText' = SendStatus("noMethod", "")
         /\ UNCHANGED <<grpcResponseView, sends, history>>
    ELSE /\ grpcStatusText' = SendStatus("sending", grpcCurrentService)
         /\ grpcResponseView' = EmptyView
         /\ sends' = Append(sends, NewSend(IF Connected /\ NoConnectRunning THEN grpcConn ELSE 0))
         /\ history' = <<Request(grpcCurrentService, grpcServerInput,
                                 grpcCurrentService, grpcRequestMeta,
                                 grpcRequestBody)>> \o history

\* The Send button or F5 (main.go 279, 344).
SendButton ==
    /\ sendGrpcRequest
    /\ UNCHANGED <<grpcServerInput, grpcMethodInput, grpcConn, grpcStub,
                   grpcReflectClient, grpcAllMethods, grpcAvailableMethods,
                   grpcMethodList, conns, tasks, updates, resolveLog,
                   grpcCurrentService, grpcRequestMeta, grpcBodyCache, tvars>>
    /\ UNCHANGED cvars

\* What a send goroutine leaves alone.
SendFrame ==
    UNCHANGED <<grpcServerInput, grpcMethodInput, grpcStatusText, grpcConn,
                grpcStub, grpcReflectClient, grpcAllMethods,
                grpcAvailableMethods, grpcMethodList, conns, tasks, resolveLog,
                grpcCurrentService, grpcRequestMeta, grpcResponseView,
                grpcBodyCache, history, tvars, cvars>>

\* The goroutine hands the closure of an error to QueueUpdateDraw and waits
\* for it.
SendQueues(i, kind) ==
    /\ updates' = Append(updates, [kind |-> kind, task |-> i])
    /\ sends' = [sends EXCEPT ![i].pc = "wait", ![i].outcome = kind]

\* main.go 622-630, in the goroutine: a.grpcCurrentService as it is now.
SendSplit(i) ==
    /\ sends[i].pc = "split"
    /\ LET parts == SplitN(grpcCurrentService)
       IN  IF Len(parts) # 2
           THEN SendQueues(i, "invalidFormat")
           ELSE /\ sends' = [sends EXCEPT ![i].pc = "resolve",
                                          ![i].serviceName = parts[1],
                                          ![i].methodName = parts[2]]
                /\ UNCHANGED updates
    /\ SendFrame

SendResolveIgnoresMissingMethod(i) ==
    /\ sends[i].pc = "resolve"
    /\ IF grpcReflectClient = 0
       THEN sends' = [sends EXCEPT ![i].pc = "crashed"] /\ UNCHANGED updates
       ELSE \/ SendQueues(i, "resolveError")
            \/ /\ sends[i].serviceName \in SvcNames
               /\ sends' = [sends EXCEPT ![i].pc = "body"]
               /\ UNCHANGED updates
    /\ SendFrame

\* main.go 632-647, in the goroutine: ResolveService on a.grpcReflectClient
\* as it is now, a nil client being a nil pointer dereference; the lookup
\* fails, or finds the service when a server can offer it, and
\* FindMethodByName then finds the method or not.
SendResolve(i) ==
    /\ sends[i].pc = "resolve"
    /\ IF grpcReflectClient = 0
       THEN sends' = [sends EXCEPT ![i].pc = "crashed"] /\ UNCHANGED updates
       ELSE \/ SendQueues(i, "resolveError")
            \/ /\ sends[i].serviceName \in SvcNames
               /\ IF sends[i].methodName \in Range(Methods(sends[i].serviceName))
                  THEN /\ sends' = [sends EXCEPT ![i].pc = "body"]
                       /\ UNCHANGED updates
                  ELSE SendQueues(i, "methodNotFound")
    /\ SendFrame

SendBodyIgnoresError(i) ==
    /\ sends[i].pc = "body"
    /\ sends' = [sends EXCEPT ![i].pc = "meta", ![i].bodyText = grpcRequestBody]
    /\ UNCHANGED updates
    /\ SendFrame

\* main.go 649-660, in the goroutine: the body text as it is now.
SendBody(i) ==
    /\ sends[i].pc = "body"
    /\ LET bodyText == grpcRequestBody
           md == InputType(sends[i].serviceName, sends[i].methodName)
       IN  IF bodyText # EmptyText /\ bodyUnmarshalFails(md, bodyText)
           THEN /\ updates' = Append(updates, [kind |-> "bodyParseError", task |-> i])
                /\ sends' = [sends EXCEPT ![i].pc = "wait", ![i].bodyText = bodyText,
                                          ![i].outcome = "bodyParseError"]
           ELSE /\ sends' = [sends EXCEPT ![i].pc = "meta", ![i].bodyText = bodyText]
                /\ UNCHANGED updates
    /\ SendFrame

\* main.go 662-676, in the goroutine: the metadata text as it is now.
SendMeta(i) ==
    /\ sends[i].pc = "meta"
    /\ LET metaText == grpcRequestMeta
       IN  IF metaText # EmptyText /\ metaUnmarshalFails(metaText)
           THEN /\ updates' = Append(updates, [kind |-> "metaParseError", task |-> i])
                /\ sends' = [sends EXCEPT ![i].pc = "wait", ![i].metaText = metaText,
                                          ![i].outcome = "metaParseError"]
           ELSE /\ sends' = [sends EXCEPT ![i].pc = "invoke", ![i].metaText = metaText]
                /\ UNCHANGED updates
    /\ SendFrame

\* main.go 678-683, in the goroutine: InvokeRpc on a.grpcStub as it is now,
\* the zero Stub having no channel to call.  The call fails, always so on a
\* closed connection, or returns a response, which is a *dynamic.Message or,
\* for a well-known output type, a generated message.
SendInvoke(i) ==
    /\ sends[i].pc = "invoke"
    /\ IF grpcStub = 0
       THEN sends' = [sends EXCEPT ![i].pc = "crashed"] /\ UNCHANGED updates
       ELSE \E outcome \in {"error", "response", "unexpectedType"} :
            \E duration \in Durations :
               /\ outcome # "error" => conns[grpcStub].open
               /\ sends' = [sends EXCEPT ![i].pc = "wait",
                                         ![i].invokedOn = grpcStub,
                                         ![i].outcome = outcome,
                                         ![i].duration = duration]
               /\ updates' = Append(updates, [kind |-> "rpcDone", task |-> i])
    /\ SendFrame

SendUpdateKinds ==
    {"invalidFormat", "resolveError", "methodNotFound", "bodyParseError",
     "metaParseError", "rpcDone"}

\* The closures of a send, on the UI thread (main.go 625-627, 635-637,
\* 643-645, 655-657, 670-672, 683-708).
RunSendUpdate(u) ==
    /\ CASE u.kind = "invalidFormat" ->
              /\ grpcStatusText' = SendStatus("invalidFormat", grpcCurrentService)
              /\ UNCHANGED grpcResponseView
         [] u.kind = "resolveError" ->
              /\ grpcStatusText' = SendStatus("resolveError", sends[u.task].serviceName)
              /\ UNCHANGED grpcResponseView
         [] u.kind = "methodNotFound" ->
              /\ grpcStatusText' = SendStatus("methodNotFound", sends[u.task].methodName)
              /\ UNCHANGED grpcResponseView
         [] u.kind = "bodyParseError" ->
              /\ grpcStatusText' = SendStatus("bodyParseError", "")
              /\ UNCHANGED grpcResponseView
         [] u.kind = "metaParseError" ->
              /\ grpcStatusText' = SendStatus("metaParseError", "")
              /\ UNCHANGED grpcResponseView
         [] u.kind = "rpcDone" ->
              CASE sends[u.task].outcome = "error" ->
                     /\ grpcStatusText' = SendStatus("rpcError", "")
                     /\ grpcResponseView' = [kind |-> "error"]
                [] sends[u.task].outcome = "unexpectedType" ->
                     /\ grpcStatusText' = SendStatus("unexpectedType", "")
                     /\ grpcResponseView' = [kind |-> "unformatted"]
                [] sends[u.task].outcome = "response" ->
                     /\ grpcStatusText' = SuccessStatus(sends[u.task].duration)
                     /\ grpcResponseView' =
                          [kind |-> "response", conn |-> sends[u.task].invokedOn]
    /\ sends' = [sends EXCEPT ![u.task].pc = "done"]
    /\ UNCHANGED <<grpcServerInput, grpcMethodInput, grpcConn, grpcStub,
                   grpcReflectClient, grpcAllMethods, grpcAvailableMethods,
                   grpcMethodList, conns, tasks, resolveLog,
                   grpcCurrentService, grpcRequestMeta, grpcBodyCache, history>>

\* The user edits the body or the metadata.
EditBody(text) ==
    /\ text # grpcRequestBody
    /\ grpcRequestBody' = text
    /\ UNCHANGED <<genType, genExisting, genMerged, genPc, genRuns, gens, svars,
                   qvars>>
    /\ UNCHANGED cvars

EditMeta(text) ==
    /\ text # grpcRequestMeta
    /\ grpcRequestMeta' = text
    /\ UNCHANGED <<grpcCurrentService, grpcResponseView, grpcBodyCache,
                   history, sends, svars, tvars>>
    /\ UNCHANGED cvars

\* main.go 1357-1378, on the UI thread: a saved request is opened.  SetText
\* on the method input runs the search over the catalog as it is.
loadGrpcRequest(req) ==
    /\ grpcServerInput' = req.GrpcServer
    /\ grpcRequestMeta' = req.GrpcMetadata
    /\ grpcMethodInput' = req.GrpcMethod
    /\ updateGrpcMethodList(req.GrpcMethod, grpcAllMethods)
    /\ grpcRequestBody' = req.Body
    /\ grpcCurrentService' = req.GrpcMethod
    /\ grpcBodyCache' =
         IF req.GrpcMethod # ""
         THEN [m \in DOMAIN grpcBodyCache \cup {req.GrpcMethod} |->
                 IF m = req.GrpcMethod THEN req.Body ELSE grpcBodyCache[m]]
         ELSE grpcBodyCache
    /\ grpcConnect(req.GrpcServer, Callback(req.GrpcMethod))
    /\ UNCHANGED <<grpcConn, grpcStub, grpcReflectClient, grpcAllMethods, conns,
                   updates, resolveLog, grpcResponseView, history, sends,
                   genType, genExisting, genMerged, genPc, genRuns, gens>>
    /\ UNCHANGED cvars

(***************************************************************************)
(* selectGrpcMethod and the generation goroutines it starts                *)
(***************************************************************************)
\* Selections in one run.
MaxSelects == 2

\* A generation goroutine: its position, its arguments fullMethodName and
\* existingBody, and the text of the template it has marshalled.
NewGen(fullMethodName, existingBody) ==
    [pc |-> "run", method |-> fullMethodName, existingBody |-> existingBody,
     template |-> NotRead]

\* main.go 431-436, on the UI thread.
generateGrpcBodyTemplate(fullMethodName, existingBody) ==
    IF grpcReflectClient = 0 \/ fullMethodName = ""
    THEN UNCHANGED gens
    ELSE gens' = Append(gens, NewGen(fullMethodName, existingBody))

\* main.go 463-473: the indented JSON of mergedMap, as GenApply shows it.
TemplateText(mergedMap) ==
    LET jsonTemplate == JsonText(Encode(mergedMap))
    IN  IF jsonTemplate = JsonText(JNull) THEN JsonText(JObj(EmptyMap))
        ELSE jsonTemplate

\* main.go 437-475, in the goroutine: ResolveService on a.grpcReflectClient
\* as it is now fails or finds the service; every early return ends the
\* goroutine without a message; otherwise the closure that writes the
\* template is handed to QueueUpdateDraw.
GenRun(g) ==
    /\ gens[g].pc = "run"
    /\ LET parts == SplitN(gens[g].method)
           returns == gens' = [gens EXCEPT ![g].pc = "done"] /\ UNCHANGED updates
       IN  IF Len(parts) # 2 THEN returns
           ELSE IF grpcReflectClient = 0
           THEN gens' = [gens EXCEPT ![g].pc = "crashed"] /\ UNCHANGED updates
           ELSE \/ returns
                \/ /\ parts[1] \in SvcNames
                   /\ IF parts[2] \notin Range(Methods(parts[1])) THEN returns
                      ELSE LET u == unmarshalExisting(gens[g].existingBody)
                               mergedMap ==
                                 buildTemplateMap(InputType(parts[1], parts[2]),
                                                  u.data, 0)
                           IN  IF mergedMap = Overflow
                               THEN /\ gens' = [gens EXCEPT ![g].pc = "crashed"]
                                    /\ UNCHANGED updates
                               ELSE /\ gens' = [gens EXCEPT
                                                  ![g].pc = "wait",
                                                  ![g].template = TemplateText(mergedMap)]
                                    /\ updates' = Append(updates,
                                                         [kind |-> "template",
                                                          task |-> g])
    /\ UNCHANGED <<genType, genExisting, genMerged, genPc, genRuns,
                   grpcRequestBody, grpcServerInput, grpcMethodInput,
                   grpcStatusText, grpcConn, grpcStub, grpcReflectClient,
                   grpcAllMethods, grpcAvailableMethods, grpcMethodList, conns,
                   tasks, resolveLog, qvars>>
    /\ UNCHANGED cvars

\* main.go 470-474, on the UI thread: the closure of generation u.task.
RunTemplateUpdate(u) ==
    /\ grpcRequestBody' = gens[u.task].template
    /\ gens' = [gens EXCEPT ![u.task].pc = "done"]
    /\ UNCHANGED <<genType, genExisting, genMerged, genPc, genRuns,
                   grpcServerInput, grpcMethodInput, grpcStatusText, grpcConn,
                   grpcStub, grpcReflectClient, grpcAllMethods,
                   grpcAvailableMethods, grpcMethodList, conns, tasks,
                   resolveLog, qvars>>

selectGrpcMethodAlwaysCaches(methodName) ==
    /\ grpcBodyCache' =
         IF grpcCurrentService # ""
         THEN [m \in DOMAIN grpcBodyCache \cup {grpcCurrentService} |->
                 IF m = grpcCurrentService THEN grpcRequestBody
                 ELSE grpcBodyCache[m]]
         ELSE grpcBodyCache
    /\ grpcCurrentService' = methodName
    /\ grpcMethodInput' = methodName
    /\ updateGrpcMethodList(methodName, grpcAllMethods)
    /\ grpcStatusText' = SendStatus("selected", methodName)
    /\ grpcResponseView' = EmptyView
    /\ grpcRequestMeta' = EmptyText
    /\ grpcRequestBody' = EmptyText
    /\ generateGrpcBodyTemplate(methodName, EmptyText)
    /\ UNCHANGED <<grpcServerInput, grpcConn, grpcStub, grpcReflectClient,
                   grpcAllMethods, conns, tasks, updates, resolveLog, history,
                   sends, genType, genExisting, genMerged, genPc, genRuns>>
    /\ UNCHANGED cvars

\* part_001 151-166, on the UI thread.  SetText on the method input runs the
\* search over the catalog; hideMethodList and SetFocus are layout.
selectGrpcMethod(methodName) ==
    /\ grpcBodyCache' =
         IF grpcCurrentService # "" /\ grpcCurrentService # methodName
         THEN [m \in DOMAIN grpcBodyCache \cup {grpcCurrentService} |->
                 IF m = grpcCurrentService THEN grpcRequestBody
                 ELSE grpcBodyCache[m]]
         ELSE grpcBodyCache
    /\ grpcCurrentService' = methodName
    /\ grpcMethodInput' = methodName
    /\ updateGrpcMethodList(methodName, grpcAllMethods)
    /\ grpcStatusText' = SendStatus("selected", methodName)
    /\ grpcResponseView' = EmptyView
    /\ grpcRequestMeta' = EmptyText
    /\ grpcRequestBody' = EmptyText
    /\ generateGrpcBodyTemplate(methodName, EmptyText)
    /\ UNCHANGED <<grpcServerInput, grpcConn, grpcStub, grpcReflectClient,
                   grpcAllMethods, conns, tasks, updates, resolveLog, history,
                   sends, genType, genExisting, genMerged, genPc, genRuns>>
    /\ UNCHANGED cvars

\* part_001 36-42: Enter in the method input selects the first available
\* method.
EnterKey ==
    /\ Len(grpcAvailableMethods) > 0
    /\ selectGrpcMethod(grpcAvailableMethods[1])

\* part_001 65-70: an item of the result list is chosen.
SelectFromList(index) ==
    /\ grpcMethodList[index] # NoResults
    /\ selectGrpcMethod(grpcMethodList[index])

(***************************************************************************)
(* sendRequest: the send of the HTTP view, as far as the history and the   *)
(* update queue go (the widgets of the HTTP view are not part of the model)*)
(***************************************************************************)
\* The Request of models.go for an HTTP request; Time, the method and the
\* auth fields are left out.
HttpRequest(url, headersJSON) ==
    [Type |-> "http", URL |-> url, Headers |-> headersJSON]

\* What is typed into the URL input and into the headers text.
Urls == {"", "u"}
HeaderTexts == {EmptyText, MalformedText, JsonText(JObj([k |-> JStr("v")]))}

sendRequestRecordsRejected(url, headersJSON) ==
    IF url = ""
    THEN UNCHANGED <<sends, history>>
    ELSE /\ sends' = IF headersJSON # EmptyText /\ metaUnmarshalFails(headersJSON)
                     THEN sends
                     ELSE Append(sends, [pc |-> "http", outcome |-> "none"])
         /\ history' = <<HttpRequest(url, headersJSON)>> \o history

\* main.go 1187-1274, on the UI thread, with url in the URL input and
\* headersJSON in the headers text.
sendRequest(url, headersJSON) ==
    IF url = ""
    THEN UNCHANGED <<sends, history>>
    ELSE IF headersJSON # EmptyText /\ metaUnmarshalFails(headersJSON)
    THEN UNCHANGED <<sends, history>>
    ELSE /\ sends' = Append(sends, [pc |-> "http", outcome |-> "none"])
         /\ history' = <<HttpRequest(url, headersJSON)>> \o history

\* The Send button of the HTTP view.
HttpSendButton(url, headersJSON) ==
    /\ sendRequest(url, headersJSON)
    /\ UNCHANGED <<svars, tvars, grpcCurrentService, grpcRequestMeta,
                   grpcResponseView, grpcBodyCache>>
    /\ UNCHANGED cvars

\* main.go 1217-1218, in the goroutine: doHttpRequest returns an error or a
\* response, and the closure showing it is handed to QueueUpdateDraw.
HttpDo(i) ==
    /\ sends[i].pc = "http"
    /\ \E outcome \in {"error", "response"} :
          sends' = [sends EXCEPT ![i].pc = "wait", ![i].outcome = outcome]
    /\ updates' = Append(updates, [kind |-> "httpDone", task |-> i])
    /\ SendFrame

\* main.go 1220-1256, on the UI thread: the result goes to the HTTP view.
RunHttpUpdate(u) ==
    /\ sends' = [sends EXCEPT ![u.task].pc = "done"]
    /\ UNCHANGED <<grpcServerInput, grpcMethodInput, grpcStatusText, grpcConn,
                   grpcStub, grpcReflectClient, grpcAllMethods,
                   grpcAvailableMethods, grpcMethodList, conns, tasks,
                   resolveLog, grpcCurrentService, grpcRequestMeta,
                   grpcResponseView, grpcBodyCache, history, tvars>>

\* main.go 726-735: an entry of the history list is chosen; an HTTP entry is
\* opened in the HTTP view.
loadRequestFromHistory(index) ==
    /\ index \in DOMAIN history
    /\ IF history[index].Type = "grpc"
       THEN loadGrpcRequest(history[index])
       ELSE UNCHANGED vars

\* The closures of a connect, on the UI thread; lists is what ListServices
\* can have returned.
RunConnectUpdate(u, lists) ==
    /\ CASE u.kind = "dialFailed" -> ReportDialFailed(u.task)
         [] u.kind = "listFailed" -> ReportListFailed(u.task)
         [] u.kind = "listed" ->
              \E services \in lists :
                 \E resolved \in ResolveOutcomes(services) :
                    InstallCatalog(u.task, services, resolved)
    /\ tasks' = [tasks EXCEPT ![u.task] = Ended]
    /\ UNCHANGED <<grpcRequestMeta, grpcResponseView, grpcBodyCache, history, sends>>

\* The event loop of the application takes the next queued closure and runs
\* it; the goroutine that queued it goes on and ends.
RunUpdateOf(lists) ==
    /\ updates # <<>>
    /\ LET u == Head(updates)
       IN  IF u.kind = "template"
           THEN RunTemplateUpdate(u)
           ELSE IF u.kind = "httpDone"
           THEN RunHttpUpdate(u)
           ELSE /\ IF u.kind \in SendUpdateKinds
                   THEN RunSendUpdate(u)
                   ELSE RunConnectUpdate(u, lists)
                /\ UNCHANGED tvars
    /\ updates' = Tail(updates)
    /\ UNCHANGED cvars

RunUpdate == RunUpdateOf(ServiceLists)

TemplateIdle ==
    /\ genType = "Empty"
    /\ genExisting = EmptyText
    /\ genMerged = JNull
    /\ genPc = "idle"
    /\ genRuns = 0
    /\ gens = <<>>
    /\ grpcRequestBody = EmptyText

Init == SessionInit /\ TemplateIdle /\ CollectionsIdle

Next ==
    \/ \E addr \in Addrs \cup {""} : Len(tasks) < MaxConnects /\ ConnectButton(addr)
    \/ \E t \in DOMAIN tasks : ConnectClosePrior(t)
    \/ \E t \in DOMAIN tasks : ConnectDial(t)
    \/ \E t \in DOMAIN tasks : ConnectSetConn(t)
    \/ \E t \in DOMAIN tasks : ConnectSetStub(t)
    \/ \E t \in DOMAIN tasks : ConnectSetReflect(t)
    \/ \E t \in DOMAIN tasks : ConnectListServices(t)
    \/ RunUpdate
    \/ \E query \in Queries : TypeQuery(query)

Spec == Init /\ [][Next]_vars

(***************************************************************************)
(* Specification SpecSend: one session in which saved requests are opened, *)
(* the texts are edited and requests are sent                              *)
(***************************************************************************)
\* What the servers of this specification list.
SendServiceLists == {<<"G", "H">>}

\* The gRPC requests of the collections file and of the history.
SavedMethods == {"G/s", "G", "X/s", "G/zz"}
SavedRequests ==
    {Request(m, "a1", m, EmptyText, JsonText(JObj(EmptyMap))) : m \in SavedMethods}

\* A nil pointer dereference in a goroutine ends the process.
Running == \A i \in DOMAIN sends : sends[i].pc # "crashed"

SendNext ==
    /\ Running
    /\ \/ \E req \in SavedRequests : Len(tasks) < MaxConnects /\ loadGrpcRequest(req)
       \/ \E addr \in Addrs : Len(tasks) < MaxConnects /\ ConnectButton(addr)
       \/ \E t \in DOMAIN tasks : ConnectClosePrior(t)
       \/ \E t \in DOMAIN tasks : ConnectDial(t)
       \/ \E t \in DOMAIN tasks : ConnectSetConn(t)
       \/ \E t \in DOMAIN tasks : ConnectSetStub(t)
       \/ \E t \in DOMAIN tasks : ConnectSetReflect(t)
       \/ \E t \in DOMAIN tasks : ConnectListServices(t)
       \/ RunUpdateOf(SendServiceLists)
       \/ \E text \in BodyTexts : EditBody(text)
       \/ \E text \in MetaTexts : EditMeta(text)
       \/ Len(sends) < MaxSends /\ SendButton
       \/ \E i \in DOMAIN sends : SendSplit(i)
       \/ \E i \in DOMAIN sends : SendResolve(i)
       \/ \E i \in DOMAIN sends : SendBody(i)
       \/ \E i \in DOMAIN sends : SendMeta(i)
       \/ \E i \in DOMAIN sends : SendInvoke(i)

SpecSend == Init /\ [][SendNext]_vars

(***************************************************************************)
(* Specification SpecReconnect: connects that follow and overtake each     *)
(* other, and a send among them                                            *)
(***************************************************************************)
\* Connects in one run of SpecReconnect.
MaxReconnects == 2

\* What the servers of this specification list.
ReconnectServiceLists == {<<"G">>}

\* The saved request opened in this specification.
ReconnectRequests == {Request("G/s", "a1", "G/s", EmptyText, EmptyText)}

\* Connects in one run of SpecRace.
MaxRaceConnects == 3

RaceNext ==
    \/ \E addr \in Addrs : Len(tasks) < MaxRaceConnects /\ ConnectButton(addr)
    \/ \E t \in DOMAIN tasks : ConnectClosePrior(t)
    \/ \E t \in DOMAIN tasks : ConnectDial(t)
    \/ \E t \in DOMAIN tasks : ConnectSetConn(t)
    \/ \E t \in DOMAIN tasks : ConnectSetStub(t)
    \/ \E t \in DOMAIN tasks : ConnectSetReflect(t)
    \/ \E t \in DOMAIN tasks : ConnectListServices(t)
    \/ RunUpdateOf(ReconnectServiceLists)

SpecRace == Init /\ [][RaceNext]_vars

ReconnectNext ==
    /\ Running
    /\ \/ \E req \in ReconnectRequests :
             Len(tasks) < MaxReconnects /\ loadGrpcRequest(req)
       \/ \E addr \in Addrs : Len(tasks) < MaxReconnects /\ ConnectButton(addr)
       \/ \E t \in DOMAIN tasks : ConnectClosePrior(t)
       \/ \E t \in DOMAIN tasks : ConnectDial(t)
       \/ \E t \in DOMAIN tasks : ConnectSetConn(t)
       \/ \E t \in DOMAIN tasks : ConnectSetStub(t)
       \/ \E t \in DOMAIN tasks : ConnectSetReflect(t)
       \/ \E t \in DOMAIN tasks : ConnectListServices(t)
       \/ RunUpdateOf(ReconnectServiceLists)
       \/ Len(sends) < MaxSends /\ SendButton
       \/ \E i \in DOMAIN sends : SendSplit(i)
       \/ \E i \in DOMAIN sends : SendResolve(i)
       \/ \E i \in DOMAIN sends : SendBody(i)
       \/ \E i \in DOMAIN sends : SendMeta(i)
       \/ \E i \in DOMAIN sends : SendInvoke(i)

SpecReconnect == Init /\ [][ReconnectNext]_vars

(***************************************************************************)
(* Properties of the method search and of the catalog (checked under Spec) *)
(***************************************************************************)
\* C8: a search with the empty query leaves the catalog as it is and shows
\* all of it in discovery order, and a search over an empty catalog shows
\* nothing, whatever the query.
C8_EmptyQueryEmptyCatalog ==
    [][\A query \in Queries :
         TypeQuery(query) =>
           /\ grpcAllMethods' = grpcAllMethods
           /\ query = "" => grpcAvailableMethods' = grpcAllMethods
           /\ grpcAllMethods = <<>> => grpcAvailableMethods' = <<>>]_vars

\* The empty query is in the input over a catalog of several services, all
\* of it shown.
C8_Witness ==
    /\ grpcMethodInput = ""
    /\ grpcMethodList = <<>>
    /\ Len(grpcAllMethods) >= 3
    /\ grpcAvailableMethods = grpcAllMethods
    /\ grpcStatusText.kind = "connected"

ReflectionEntries ==
    {FullMethodName(srv, Methods(srv)[i]) :
       srv \in ReflectionServices, i \in DOMAIN Methods(SkippedService)}

\* C9: the catalog never holds an entry twice, nor an entry of the server
\* reflection service, whatever the server lists.
C9_CatalogClean ==
    /\ NoDuplicates(grpcAllMethods)
    /\ Range(grpcAllMethods) \cap ReflectionEntries = {}

RECURSIVE Flatten(_)
Flatten(seqs) == IF seqs = <<>> THEN <<>> ELSE Head(seqs) \o Flatten(Tail(seqs))

\* The entries of the services srvs, service by service, each with its
\* methods in their order.
EntriesOf(srvs) ==
    Flatten([k \in DOMAIN srvs |->
               [m \in DOMAIN Methods(srvs[k]) |->
                  FullMethodName(srvs[k], Methods(srvs[k])[m])]])

\* C10: when the closure of a successful listing runs, the catalog becomes
\* the entries of exactly the services that resolved, in listing order, and
\* the connect ends as connected, however many resolutions failed.
C10_PartialSuccess ==
    [][(/\ updates # <<>>
        /\ Head(updates).kind = "listed"
        /\ updates' = Tail(updates))
       => /\ grpcAllMethods' = EntriesOf(resolveLog'.resolved)
          /\ grpcAvailableMethods' = grpcAllMethods'
          /\ grpcStatusText'.kind = "connected"
          /\ tasks'[Head(updates).task].pc = "done"]_vars

\* A listing in which a resolution failed has installed the entries of
\* another service.
C10_Witness ==
    /\ resolveLog.failed >= 1
    /\ grpcAllMethods # <<>>
    /\ grpcStatusText.kind = "connected"

\* The closure at the head of the update queue is of this kind and is run.
Runs(kind) ==
    /\ updates # <<>>
    /\ Head(updates).kind = kind
    /\ updates' = Tail(updates)

\* C11: when ListServices failed, the closure the connect queued shows the
\* failure and leaves the catalog and the selection as they are, and with it
\* the connect is over: its goroutine has ended and no other closure of it,
\* so no success closure, is queued.
C11_ListFailureIsFinal ==
    [][Runs("listFailed") =>
         LET t == Head(updates).task
         IN  /\ grpcStatusText' = Status("listFailed", tasks[t].serverAddr, 0)
             /\ grpcAllMethods' = grpcAllMethods
             /\ grpcAvailableMethods' = grpcAvailableMethods
             /\ grpcCurrentService' = grpcCurrentService
             /\ tasks'[t] = Ended
             /\ \A k \in DOMAIN updates' :
                   updates'[k].kind \in SendUpdateKinds \/ updates'[k].task # t]_vars

\* A connect has ended in a failed listing on the connection it dialled.
C11_Witness ==
    /\ grpcStatusText.kind = "listFailed"
    /\ grpcConn # 0
    /\ \A t \in DOMAIN tasks : tasks[t] = Ended

(***************************************************************************)
(* Properties of a send (checked under SpecSend)                           *)
(***************************************************************************)
\* The send has returned: its closure is queued or has run.
Returned(send) == send.pc \in {"wait", "done"}

\* The closure of send i is waiting in the update queue.
Queued(i, kind, queue) ==
    \E k \in DOMAIN queue : queue[k] = [kind |-> kind, task |-> i]

\* The closure of send i is run in this step.
RunsSend(i) == sends[i].pc = "wait" /\ sends'[i].pc = "done"

ParseErrors == {"bodyParseError", "metaParseError"}

\* The parse error a send gives for the texts it has read.
ParseErrorOf(send) ==
    IF send.bodyText = MalformedText THEN "bodyParseError" ELSE "metaParseError"

C18_DurationReported ==
    [][\A i \in DOMAIN sends :
         (RunsSend(i) /\ sends[i].invokedOn # 0)
           => /\ "duration" \in DOMAIN grpcStatusText'
              /\ grpcStatusText'.duration = sends[i].duration]_vars

ResolutionErrors == {"invalidFormat", "resolveError", "methodNotFound"}

\* The "service/method" the send has split names a service no server offers
\* or a method its service has not.
Unresolvable(send) ==
    /\ send.pc # "split"
    /\ send.outcome # "invalidFormat"
    /\ \/ send.serviceName \notin SvcNames
       \/ send.methodName \notin Range(Methods(send.serviceName))

C20_NoDegradedState ==
    \/ grpcConn = 0
    \/ /\ conns[grpcConn].open
       /\ grpcStub = grpcConn
       /\ grpcReflectClient = grpcConn
       /\ resolveLog.client = grpcConn

\* C15: a connect that was issued while the session was connected has no
\* open connection of its own as long as the connection that was live then
\* is open.
C15_PriorClosedBeforeDial ==
    \A t \in DOMAIN tasks :
       (/\ tasks[t].prior # 0
        /\ tasks[t].conn # 0
        /\ conns[tasks[t].conn].open)
         => ~conns[tasks[t].prior].open

(***************************************************************************)
(* Properties of connects that follow each other (SpecReconnect, SpecRace) *)
(***************************************************************************)
\* The Endpoint is Disconnected: no connect is running and the handle names
\* no open connection.
Disconnected ==
    /\ NoConnectRunning
    /\ grpcConn = 0 \/ ~conns[grpcConn].open

\* C12: a send pressed while the Endpoint is Disconnected only shows the
\* not-connected error: it starts no goroutine and adds no history entry.
C12_DisconnectedSendRefused ==
    [][(Disconnected /\ SendButton)
         => /\ grpcStatusText' = SendStatus("notConnected", "")
            /\ sends' = sends
            /\ history' = history]_vars

OpenConns == {c \in DOMAIN conns : conns[c].open}

\* C13: once two connects to different addresses have both dialled and
\* ended, one connection is open, it is the one to the address of the
\* second connect (the address in the server input), and the handle, the
\* stub and the reflection client are of it.
C13_SecondConnectWins ==
    (/\ Len(tasks) = 2
     /\ NoConnectRunning
     /\ Len(conns) = 2
     /\ conns[1].addr # conns[2].addr)
      => /\ Cardinality(OpenConns) = 1
         /\ \A c \in OpenConns :
              /\ conns[c].addr = grpcServerInput
              /\ grpcConn = c
              /\ grpcStub = c
              /\ grpcReflectClient = c

\* C14: a send started while a connection was live makes its remote call
\* only over that connection, and when it made none over it because a later
\* connect has replaced the connection, the closure it queued shows an error
\* and no response.
C14_NoResultFromOtherConnection ==
    \A i \in DOMAIN sends :
       sends[i].startedOn # 0
         => /\ sends[i].invokedOn \in {0, sends[i].startedOn}
            /\ sends[i].invokedOn # sends[i].startedOn
                 => sends[i].outcome \notin {"response", "unexpectedType"}

\* The Endpoint holds nothing of a connection.
Cleared ==
    /\ grpcConn = 0
    /\ grpcStub = 0
    /\ grpcReflectClient = 0
    /\ grpcAllMethods = <<>>
    /\ grpcAvailableMethods = <<>>

\* C16: when the closure of a failed dial runs and no other connect is
\* running, the failure is in the status and the connect has ended without
\* another dial; when the connect was issued on a live connection, handle,
\* stub, reflection client and catalog of that connection are cleared.
C16_DialFailureDisconnects ==
    [][(/\ Runs("dialFailed")
        /\ \A t \in DOMAIN tasks : t # Head(updates).task => tasks[t] = Ended)
         => /\ grpcStatusText'.kind = "dialFailed"
            /\ tasks'[Head(updates).task] = Ended
            /\ conns' = conns
            /\ tasks[Head(updates).task].prior # 0 => Cleared']_vars

(***************************************************************************)
(* Properties of the shared session state and of what a send reads         *)
(***************************************************************************)
\* C21: the connection handle, the stub, the reflection client and the
\* catalog change only in a step in which the event loop runs the closure
\* at the head of the update queue.
C21_WritesOnlyInQueue ==
    [][<<grpcConn, grpcStub, grpcReflectClient, grpcAllMethods>>'
         # <<grpcConn, grpcStub, grpcReflectClient, grpcAllMethods>>
         => updates # <<>> /\ updates' = Tail(updates)]_vars

\* C22: whenever the handle names a connection, the entries of the catalog
\* were found on that connection.
C22_CatalogOfCurrentConnection ==
    (grpcConn # 0 /\ grpcAllMethods # <<>>) => resolveLog.client = grpcConn

\* C23: no send goroutine ends in a nil pointer dereference or in a call on
\* the zero stub.
C23_NoFault == ~\E i \in DOMAIN sends : sends[i].pc = "crashed"

\* The history entry of send i: history is newest first and every started
\* send has one entry.
EntryOf(i) == history[Len(history) - i + 1]

\* C24: the method a send has split, and the body and the metadata it has
\* read, are those of its history entry.
C24_SendsWhatWasShown ==
    \A i \in DOMAIN sends :
       /\ sends[i].serviceName # ""
            => SplitN(EntryOf(i).GrpcMethod)
                 = <<sends[i].serviceName, sends[i].methodName>>
       /\ sends[i].bodyText # NotRead => sends[i].bodyText = EntryOf(i).Body
       /\ sends[i].metaText # NotRead
            => sends[i].metaText = EntryOf(i).GrpcMetadata

\* C28: the count in the status of a successful connect is the number of
\* listed services other than the skipped reflection service, and is not
\* negative.
C28_ServiceCount ==
    grpcStatusText.kind = "connected"
      => /\ grpcStatusText.count = Len(resolveLog.resolved) + resolveLog.failed
         /\ grpcStatusText.count >= 0

(***************************************************************************)
(* Specification SpecSelect: one connect, after which methods are searched *)
(* and selected and the body is edited                                     *)
(***************************************************************************)
\* What the server of this specification lists, and what is typed into the
\* method input.
SelectServiceLists == {<<"G">>}
SelectQueries == {"", "t"}

SelectNext ==
    \/ \E addr \in {"a1"} : Len(tasks) < MaxConnects /\ ConnectButton(addr)
    \/ \E t \in DOMAIN tasks : ConnectClosePrior(t)
    \/ \E t \in DOMAIN tasks : ConnectDial(t)
    \/ \E t \in DOMAIN tasks : ConnectSetConn(t)
    \/ \E t \in DOMAIN tasks : ConnectSetStub(t)
    \/ \E t \in DOMAIN tasks : ConnectSetReflect(t)
    \/ \E t \in DOMAIN tasks : ConnectListServices(t)
    \/ RunUpdateOf(SelectServiceLists)
    \/ \E query \in SelectQueries : TypeQuery(query)
    \/ Len(gens) < MaxSelects /\ EnterKey
    \/ \E index \in DOMAIN grpcMethodList :
          Len(gens) < MaxSelects /\ SelectFromList(index)
    \/ \E g \in DOMAIN gens : GenRun(g)
    \/ \E text \in BodyTexts : EditBody(text)

SpecSelect == Init /\ [][SelectNext]_vars

(***************************************************************************)
(* Properties of the selection (checked under SpecSelect)                  *)
(***************************************************************************)
\* C25: when the closure of a generation writes its template into the body,
\* the generation is the one of the method that is selected now.
C25_TemplateOfSelectedMethod ==
    [][\A g \in DOMAIN gens :
         (gens[g].pc = "wait" /\ gens'[g].pc = "done")
           => gens[g].method = grpcCurrentService]_vars

\* The step is a call of selectGrpcMethod: it starts a generation, and the
\* method selected is the argument of that generation.
Selects == Len(gens') = Len(gens) + 1
SelectedMethod == gens'[Len(gens')].method

MaxLoadConnects == 2

LoadServiceLists == {<<"G">>}

\* The saved requests opened, one per method.
LoadRequests ==
    {Request("r1", "a1", "G/t", JsonText(JObj([k |-> JStr("v")])),
             JsonText(JObj(EmptyMap))),
     Request("r2", "a2", "", EmptyText, EmptyText)}

\* The connect of a load is running.
LoadRunning == \E t \in DOMAIN tasks : ~tasks[t].onSuccess.nil

LoadNext ==
    \/ \E addr \in {"a1"} : Len(tasks) = 0 /\ ConnectButton(addr)
    \/ ~LoadRunning /\ Len(gens) = 0 /\ EnterKey
    \/ \E req \in LoadRequests :
          ~LoadRunning /\ Len(tasks) < MaxLoadConnects /\ loadGrpcRequest(req)
    \/ \E t \in DOMAIN tasks : ConnectClosePrior(t)
    \/ \E t \in DOMAIN tasks : ConnectDial(t)
    \/ \E t \in DOMAIN tasks : ConnectSetConn(t)
    \/ \E t \in DOMAIN tasks : ConnectSetStub(t)
    \/ \E t \in DOMAIN tasks : ConnectSetReflect(t)
    \/ \E t \in DOMAIN tasks : ConnectListServices(t)
    \/ \E g \in DOMAIN gens : GenRun(g)
    \/ RunUpdateOf(LoadServiceLists)

SpecLoad == Init /\ [][LoadNext]_vars

\* The request a load has passed to its connect.
LoadedBy(t) ==
    CHOOSE req \in LoadRequests : req.GrpcMethod = tasks[t].onSuccess.method

\* C29: when the success closure of the connect of a load has run, the
\* selection and the method input are the method of the loaded request, and
\* the body and the metadata are still those of the request.
C29_LoadSurvivesConnect ==
    [][(Runs("listed") /\ ~tasks[Head(updates).task].onSuccess.nil)
         => LET req == LoadedBy(Head(updates).task)
            IN  /\ grpcCurrentService' = req.GrpcMethod
                /\ grpcMethodInput' = req.GrpcMethod
                /\ grpcRequestBody' = req.Body
                /\ grpcRequestMeta' = req.GrpcMetadata]_vars

(***************************************************************************)
(* Specification SpecHistory: gRPC and HTTP sends, and requests opened     *)
(* from the history                                                        *)
(***************************************************************************)
\* Sends, and connects, in one run.
MaxHistorySends == 2
MaxHistoryConnects == 2

HistoryNext ==
    /\ Running
    /\ \/ \E req \in ReconnectRequests : Len(tasks) = 0 /\ loadGrpcRequest(req)
       \/ \E index \in DOMAIN history :
             Len(tasks) < MaxHistoryConnects /\ loadRequestFromHistory(index)
       \/ \E t \in DOMAIN tasks : ConnectClosePrior(t)
       \/ \E t \in DOMAIN tasks : ConnectDial(t)
       \/ \E t \in DOMAIN tasks : ConnectSetConn(t)
       \/ \E t \in DOMAIN tasks : ConnectSetStub(t)
       \/ \E t \in DOMAIN tasks : ConnectSetReflect(t)
       \/ \E t \in DOMAIN tasks : ConnectListServices(t)
       \/ RunUpdateOf(ReconnectServiceLists)
       \/ Len(sends) < MaxHistorySends /\ SendButton
       \/ \E url \in Urls, headersJSON \in HeaderTexts :
             Len(sends) < MaxHistorySends /\ HttpSendButton(url, headersJSON)
       \/ \E i \in DOMAIN sends : SendSplit(i)
       \/ \E i \in DOMAIN sends : SendResolve(i)
       \/ \E i \in DOMAIN sends : SendBody(i)
       \/ \E i \in DOMAIN sends : SendMeta(i)
       \/ \E i \in DOMAIN sends : SendInvoke(i)
       \/ \E i \in DOMAIN sends : HttpDo(i)

SpecHistory == Init /\ [][HistoryNext]_vars

\* The step puts entry before the entries the history held.
Prepends(entry) == history' = <<entry>> \o history

\* C26: a gRPC send with a connection handle and a selected method prepends
\* its request to the history, an HTTP send with a URL and well-formed
\* headers prepends its request, a send rejected by these checks leaves the
\* history as it is, and no other step changes the history.
C26_HistoryGrowsOnAcceptedSends ==
    [][/\ SendButton =>
            IF grpcConn # 0 /\ grpcCurrentService # ""
            THEN Prepends(Request(grpcCurrentService, grpcServerInput,
                                  grpcCurrentService, grpcRequestMeta,
                                  grpcRequestBody))
            ELSE history' = history
       /\ \A url \in Urls, headersJSON \in HeaderTexts :
             HttpSendButton(url, headersJSON) =>
               IF /\ url # ""
                  /\ headersJSON \in {EmptyText, JsonText(JObj([k |-> JStr("v")]))}
               THEN Prepends(HttpRequest(url, headersJSON))
               ELSE history' = history
       /\ history' # history
            => /\ Len(sends') = Len(sends) + 1
               /\ Len(history') = Len(history) + 1
               /\ Tail(history') = history]_vars

\* Two sends have been accepted, an HTTP one after a gRPC one, and the
\* remote call of the gRPC one has failed.
C26_Witness ==
    /\ Len(history) = 2
    /\ history[1].Type = "http"
    /\ history[2].Type = "grpc"
    /\ sends[1].pc = "done"
    /\ sends[1].outcome = "error"

(***************************************************************************)
(* Part III  The collections tree: createCollectionFolder,                 *)
(*           saveCurrentRequest, deleteCollectionItem and                  *)
(*           flattenCollections (specification SpecCollections)            *)
(***************************************************************************)
\* CollectionNode objects in one run, the root included.
MaxNodes == 5

\* main.go 1100-1112: the loop of findParentNode(root, target) from child i
\* on; 0 is nil.
RECURSIVE findParentFrom(_, _, _, _)
findParentFrom(nodes, root, target, i) ==
    IF i > Len(nodes[root].Children) THEN 0
    ELSE LET child == nodes[root].Children[i]
         IN  IF child = target THEN root
             ELSE LET parent == IF nodes[child].IsFolder
                                THEN findParentFrom(nodes, child, target, 1)
                                ELSE 0
                  IN  IF parent # 0 THEN parent
                      ELSE findParentFrom(nodes, root, target, i + 1)

findParentNode(root, target) == findParentFrom(collectionsRoot, root, target, 1)

\* main.go 1116-1123: the slice without the first occurrence of node.
removeNode(slice, node) ==
    IF \E i \in DOMAIN slice : slice[i] = node
    THEN LET i == CHOOSE k \in DOMAIN slice :
                    slice[k] = node /\ \A j \in 1..(k - 1) : slice[j] # node
         IN  SubSeq(slice, 1, i - 1) \o SubSeq(slice, i + 1, Len(slice))
    ELSE slice

\* main.go 1063-1070: recursiveFlatten(nodes) from element i on.
RECURSIVE recursiveFlatten(_, _, _)
recursiveFlatten(nodes, children, i) ==
    IF i > Len(children) THEN <<>>
    ELSE LET node == children[i]
         IN  <<node>>
               \o (IF nodes[node].IsFolder /\ Len(nodes[node].Children) > 0
                   THEN recursiveFlatten(nodes, nodes[node].Children, 1)
                   ELSE <<>>)
               \o recursiveFlatten(nodes, children, i + 1)

\* main.go 1060-1072, for the nodes as they are after the change.
flattenCollections(nodes) == recursiveFlatten(nodes, nodes[1].Children, 1)

\* main.go 1050-1056: the tree view is rebuilt with the root as its current
\* node and the flat list is made again.
populateCollectionsTree(nodes) ==
    /\ collectionsTree' = 1
    /\ allCollectionNodes' = flattenCollections(nodes)

\* main.go 845-862 and 1023-1039: the folder selected in the tree view, or
\* the parent of the selected request, or the root.
parentData ==
    LET found == IF collectionsRoot[collectionsTree].IsFolder
                 THEN collectionsTree
                 ELSE findParentNode(1, collectionsTree)
    IN  IF found = 0 THEN 1 ELSE found

\* parentData.Children = append(parentData.Children, newNode)
AppendChild(newNode) ==
    Append([collectionsRoot EXCEPT
              ![parentData].Children = Append(@, Len(collectionsRoot) + 1)],
           newNode)

\* main.go 841-869.  saveCollections writes the file.
createCollectionFolder(name) ==
    /\ collectionsRoot' = AppendChild(CollectionNode(name, TRUE, NoRequest, <<>>))
    /\ populateCollectionsTree(collectionsRoot')

\* main.go 780-786: the Create button of the folder dialog.
CreateFolder(folderName) ==
    /\ IF folderName # ""
       THEN createCollectionFolder(folderName)
       ELSE UNCHANGED <<collectionsRoot, allCollectionNodes, collectionsTree>>
    /\ UNCHANGED <<deleteModal, tvars, svars, qvars>>

\* main.go 973-1046, called by the Save button of the save dialog
\* (756-760); the request of the HTTP page is an HttpRequest.
saveCurrentRequest(name, requestType) ==
    /\ LET requestData ==
             IF requestType = "grpc"
             THEN Request(name, grpcServerInput, grpcCurrentService,
                          grpcRequestMeta, grpcRequestBody)
             ELSE HttpRequest("u", EmptyText)
       IN  collectionsRoot' =
             AppendChild(CollectionNode(name, FALSE, requestData, <<>>))
    /\ populateCollectionsTree(collectionsRoot')
    /\ UNCHANGED <<deleteModal, tvars, svars, qvars>>

\* main.go 798-809: the Delete key in the tree view opens the confirmation
\* for the current node, which is captured, unless that is the root.
showDeleteConfirmationModal ==
    /\ deleteModal' = IF collectionsTree = 1 THEN deleteModal ELSE collectionsTree
    /\ UNCHANGED <<collectionsRoot, allCollectionNodes, collectionsTree, tvars,
                   svars, qvars>>

deleteCollectionItemNoRefresh(nodeToDelete) ==
    LET parent == findParentNode(1, nodeToDelete)
    IN  IF parent = 0
        THEN UNCHANGED <<collectionsRoot, allCollectionNodes, collectionsTree>>
        ELSE /\ collectionsRoot' =
                  [collectionsRoot EXCEPT
                     ![parent].Children = removeNode(@, nodeToDelete)]
             /\ UNCHANGED <<allCollectionNodes, collectionsTree>>

\* main.go 829-838.
deleteCollectionItem(nodeToDelete) ==
    LET parent == findParentNode(1, nodeToDelete)
    IN  IF parent = 0
        THEN UNCHANGED <<collectionsRoot, allCollectionNodes, collectionsTree>>
        ELSE /\ collectionsRoot' =
                  [collectionsRoot EXCEPT
                     ![parent].Children = removeNode(@, nodeToDelete)]
             /\ populateCollectionsTree(collectionsRoot')

\* main.go 814-819: a button of the confirmation is pressed.
DeleteModalDone(buttonLabel) ==
    /\ deleteModal # 0
    /\ IF buttonLabel = "Delete"
       THEN deleteCollectionItem(deleteModal)
       ELSE UNCHANGED <<collectionsRoot, allCollectionNodes, collectionsTree>>
    /\ deleteModal' = 0
    /\ UNCHANGED <<tvars, svars, qvars>>

\* The user moves the current node of the tree view to a node shown.
MoveTo(node) ==
    /\ node # collectionsTree
    /\ collectionsTree' = node
    /\ UNCHANGED <<collectionsRoot, allCollectionNodes, deleteModal, tvars,
                   svars, qvars>>

\* The collections files an application can start with.
SavedTrees ==
    {<<RootNode>>,
     <<CollectionNode("Collections", TRUE, NoRequest, <<2>>),
       CollectionNode("f", TRUE, NoRequest, <<3>>),
       CollectionNode("r", FALSE, Request("r", "a1", "G/s", EmptyText, EmptyText),
                      <<>>)>>}

\* NewApp, loadCollections and the populateCollectionsTree of Init (main.go
\* 126-141, 98-109, 156).
CollectionsInit ==
    /\ SessionInit
    /\ TemplateIdle
    /\ collectionsRoot \in SavedTrees
    /\ allCollectionNodes = flattenCollections(collectionsRoot)
    /\ collectionsTree = 1
    /\ deleteModal = 0

FolderNames == {"", "f"}

CollectionsNext ==
    \/ \E folderName \in FolderNames :
          Len(collectionsRoot) < MaxNodes /\ CreateFolder(folderName)
    \/ \E requestType \in {"grpc", "http"} :
          Len(collectionsRoot) < MaxNodes /\ saveCurrentRequest("r", requestType)
    \/ showDeleteConfirmationModal
    \/ \E buttonLabel \in {"Delete", "Cancel"} : DeleteModalDone(buttonLabel)
    \/ \E node \in {1} \cup Range(allCollectionNodes) : MoveTo(node)

SpecCollections == CollectionsInit /\ [][CollectionsNext]_vars

\* The nodes below node n in pre-order: each child, followed by the nodes
\* below it, in the order of the children.
RECURSIVE PreOrderFrom(_, _, _)
PreOrderFrom(nodes, n, i) ==
    IF i > Len(nodes[n].Children) THEN <<>>
    ELSE <<nodes[n].Children[i]>>
           \o PreOrderFrom(nodes, nodes[n].Children[i], 1)
           \o PreOrderFrom(nodes, n, i + 1)

Below(nodes, n) == PreOrderFrom(nodes, n, 1)
Subtree(nodes, n) == {n} \cup Range(Below(nodes, n))
Without(list, gone) == SelectSeq(list, LAMBDA x : x \notin gone)

\* C30: after every step the flat list is the pre-order listing of the nodes
\* below the root, each once and without the root, and the listing is the
\* one before the step, or that with one new node, or that without one node
\* and its subtree, the other nodes in the order they had.
C30_FlatListIsPreOrder ==
    [][LET old == Below(collectionsRoot, 1)
           new == Below(collectionsRoot', 1)
       IN  /\ allCollectionNodes' = new
           /\ NoDuplicates(new)
           /\ 1 \notin Range(new)
           /\ \/ new = old
              \/ \E n \in Range(new) \ Range(old) : Without(new, {n}) = old
              \/ \E d \in Range(old) :
                    new = Without(old, Subtree(collectionsRoot, d))]_vars

\* A folder holding a node has been deleted and another node is left.
C30_Witness ==
    /\ allCollectionNodes # <<>>
    /\ \E d \in DOMAIN collectionsRoot :
          /\ d \notin Subtree(collectionsRoot, 1)
          /\ collectionsRoot[d].Children # <<>>

====
